---- MODULE Spec2Model ----
(***************************************************************************)
(* The control algorithm of deep_dream.py: CNN.dream, the octave recursion *)
(* _octave_detail, the jittered gradient-ascent loop _step and the tiled   *)
(* gradient _grad_tiled, together with the progress bar they drive.        *)
(*                                                                         *)
(* Arrays are modelled by their shape and by a symbolic normal form of     *)
(* their content: every array the program builds is  coef * B + D  where B *)
(* is the preprocessed input resampled along `chain` and D is the          *)
(* perturbation produced by the events of `det` (ascent steps and          *)
(* resamplings).  The network is a black box: a tile's gradient is a       *)
(* function of the tile it is given.  Random draws are named by the seed   *)
(* and the index of the draw.                                              *)
(***************************************************************************)
EXTENDS Integers, Sequences, FiniteSets, TLC

\* Bounds of the model.
MaxDim == 5
MaxTile == 2
MaxScale == 2
MaxN == 2

\* Program constants.
DefaultScale == 4
DefaultN == 10
DefaultPerOctave == 2
DefaultMaxTileSize == 512
Channels == 3
DocDim == 1000
\* Input blob of bvlc_googlenet/deploy.prototxt: 10 x 3 x 224 x 224
NetBatch == 10
NetInputDim == 224

VARIABLES
    cfg,            \* arguments of dream: input_img shape and **kwargs
    call,           \* which dream invocation of this CNN instance is the latest
    results,        \* what each finished dream invocation gave its caller
    pc,             \* position of the (single) thread of control
    exc,            \* the exception being propagated, or "none"
    stack,          \* activation records of _octave_detail
    ret,            \* value returned by the _octave_detail call that last returned
    img,            \* self.img
    total_px,       \* self.total_px
    progress_bar,   \* self.progress_bar: index into bars, 0 for None
    bars,           \* the tqdm objects created by the latest dream invocation
    net,            \* the Caffe net: input blob shape and gradient buffers
    rng,            \* numpy's global random generator
    jit,            \* x, y of _step
    y, x, g,        \* loop counters and gradient array of _grad_tiled
    resizes         \* calls of _resize made by the running dream invocation

vars == <<cfg, call, results, pc, exc, stack, ret, img, total_px, progress_bar,
          bars, net, rng, jit, y, x, g, resizes>>

----------------------------------------------------------------------------
\* Arithmetic helpers

RECURSIVE Pow(_, _)
Pow(b, e) == IF e = 0 THEN 1 ELSE b * Pow(b, e - 1)

\* np.ceil(d / 2**(1/per_octave)) for d >= 1: the least k with k * 2^(1/po) >= d,
\* that is 2 * k^po >= d^po  (2^(1/po) is irrational for po >= 2, exact for po = 1).
NextSize(d, po) ==
    CHOOSE k \in 0..d : /\ 2 * Pow(k, po) >= Pow(d, po)
                        /\ (k = 0 \/ 2 * Pow(k - 1, po) < Pow(d, po))

\* Number of tiles per dimension: (h-1)//max_tile_size+1 (floor division)
NumTiles(d, m) == ((d - 1) \div m) + 1

\* th (tw): h//ny, plus h - th*ny for the last tile
TileLenEqual(d, nt, i) == d \div nt
TileLen(d, nt, i) ==
    LET t == d \div nt IN IF i = nt - 1 THEN t + (d - t * nt) ELSE t

\* sy (sx): h//ny*y
TileStart(d, nt, i) == (d \div nt) * i

----------------------------------------------------------------------------
\* Arrays

Arr(shape, coef, chain, det) ==
    [shape |-> shape, coef |-> coef, chain |-> chain, det |-> det, roll |-> <<>>]

\* No array: a value that was not computed
NoArr == Arr(<<>>, 0, <<>>, <<>>)

Last2(s) == <<s[Len(s) - 1], s[Len(s)]>>

\* np.rollaxis(a, 2): axis 2 moves to the front
RollAxis2(s) == <<s[3]>> \o <<s[1], s[2]>> \o SubSeq(s, 4, Len(s))

\* Shape of a - mean where mean has shape (3, 1, 1) and a has at least 3 dims
\* whose third-last is 1 or 3.
MinusMeanShape(s) == [k \in 1..Len(s) |-> IF k = Len(s) - 2 THEN Channels ELSE s[k]]

\* _preprocess of an image array of shape s
Preprocess(s) == Arr(MinusMeanShape(RollAxis2(s)), 1, <<>>, <<>>)

\* np.zeros_like(a)
ZerosLikeCopy(a) == a
ZerosLike(a) == Arr(a.shape, 0, <<>>, <<>>)

\* a + b and a - b for arrays of equal shape
Add(a, b) ==
    [shape |-> a.shape, coef |-> a.coef + b.coef,
     chain |-> IF a.coef # 0 THEN a.chain ELSE b.chain,
     det |-> a.det \o b.det, roll |-> a.roll \o b.roll]

Sub(a, b) ==
    [shape |-> a.shape, coef |-> a.coef - b.coef,
     chain |-> IF a.coef - b.coef # 0 THEN a.chain ELSE <<>>,
     det |-> a.det, roll |-> a.roll]

\* _resize(arr, size): TypeError unless arr.ndim == 3; resampling is linear, so
\* it resamples the base part and the perturbation part, and maps zero to zero.
ResizeOkAny(a) == TRUE
ResizeOk(a) == Len(a.shape) = 3

Resize(a, size) ==
    [shape |-> <<a.shape[1], size[1], size[2]>>,
     coef |-> a.coef,
     chain |-> IF a.coef # 0 THEN Append(a.chain, size) ELSE a.chain,
     det |-> IF a.det # <<>> THEN Append(a.det, [op |-> "resize", size |-> size,
                                                  jit |-> <<>>, tiles |-> <<>>])
             ELSE a.det,
     roll |-> a.roll]

\* np.roll(np.roll(a, x, 2), y, 1) with the draws j; sign -1 for -x, -y
Roll(a, j, sign) ==
    LET n == Len(a.roll) IN
    IF n > 0 /\ a.roll[n] = <<j, -sign>>
    THEN [a EXCEPT !.roll = SubSeq(a.roll, 1, n - 1)]
    ELSE [a EXCEPT !.roll = Append(a.roll, <<j, sign>>)]

\* self.img += step_size * g / np.median(np.abs(g)), g stitched from `tiles`
Ascend(a, j, tiles) ==
    [a EXCEPT !.det = Append(a.det, [op |-> "step", size |-> Last2(a.shape),
                                      jit |-> j, tiles |-> tiles])]

\* np.dstack((img + mean)[::-1]): the planes a[k] are stacked along axis 2
DeprocessShape(s) ==
    IF Len(s) = 3 THEN <<s[2], s[3], s[1]>>
    ELSE <<s[2], s[3], s[4] * s[1]>>

\* Image.fromarray(np.uint8(...)): an H x W x 3 array is an RGB image (one of
\* no pixel too)
ToImageOk(s) == Len(s) = 3 /\ s[3] = Channels

----------------------------------------------------------------------------
\* Random generator: np.random.seed and np.random.randint(-jitter, jitter+1, 2)

SeedKeep(r, s) == r
Seed(r, s) == [seed |-> s, draws |-> 0]

Draw2(r) == <<r.seed, r.draws>>
Advance2(r) == [r EXCEPT !.draws = r.draws + 2]

----------------------------------------------------------------------------
\* Progress bar (tqdm)

NewBar(total) == [total |-> total, n |-> 0, closed |-> FALSE]

None == 0

\* Truth value of self.progress_bar, as tested by `if not self.progress_bar`
\* and `if self.progress_bar`: None is false, and a tqdm object made with a
\* total is true exactly when its total is positive (tqdm.__bool__).
Truthy(ref, heap) == ref # None /\ heap[ref].total > 0

----------------------------------------------------------------------------
\* Inputs

\* An array of four dimensions (a batch holding one 2 x 2 image)
Batched == <<1, 2, 2, Channels>>

Images == {<<h, w, Channels>> : h \in 1..MaxDim, w \in 1..MaxDim} \cup {Batched}

\* Arrays holding no pixel
EmptyImages == {<<0, 2, Channels>>, <<2, 0, Channels>>}

\* An empty image is given to dream with scale = 1 only: what Pillow makes of
\* an empty plane in _resize is not modelled.
Configs ==
    [image : Images, scale : 1..MaxScale, n : 0..MaxN,
     per_octave : {1, DefaultPerOctave}, max_tile_size : 1..MaxTile,
     progress : BOOLEAN]
    \cup
    [image : EmptyImages, scale : {1}, n : 0..MaxN,
     per_octave : {1, DefaultPerOctave}, max_tile_size : 1..MaxTile,
     progress : BOOLEAN]

\* dream(img) of the docstring's 1000 x 1000 image with every default
DocConfigs ==
    [image : {<<DocDim, DocDim, Channels>>}, scale : {DefaultScale},
     n : {DefaultN}, per_octave : {DefaultPerOctave},
     max_tile_size : {DefaultMaxTileSize}, progress : BOOLEAN]

\* input_arr of dream
InputArr == Preprocess(cfg.image)

Top == stack[Len(stack)]

NoJit == <<>>

----------------------------------------------------------------------------
\* CNN.__init__: the state of a fresh instance, before any dream call

\* Shape of the network's input blob as loaded, line 50
NetInputShape == <<NetBatch, Channels, NetInputDim, NetInputDim>>

\* self.img = np.zeros_like(self.data[self.start]), line 56: zeros of the shape
\* of the first element of the input blob
InitImg == Arr(Tail(NetInputShape), 0, <<>>, <<>>)

InitCNN ==
    /\ call = "none"
    /\ results = <<>>
    /\ pc = "idle"
    /\ exc = "none"
    /\ stack = <<>>
    /\ ret = NoArr
    /\ img = InitImg
    /\ total_px = 0
    /\ progress_bar = None
    /\ bars = <<>>
    /\ net = [shape |-> NetInputShape, diff |-> "zero"]
    /\ rng = [seed |-> -1, draws |-> 0]
    /\ jit = NoJit
    /\ y = 0
    /\ x = 0
    /\ g = <<>>
    /\ resizes = <<>>

Init == cfg \in Configs /\ InitCNN

InitDoc == cfg \in DocConfigs /\ InitCNN

----------------------------------------------------------------------------
\* dream, lines 147-154: zero the gradients, preprocess, seed, reset the
\* counters and call _octave_detail(input_arr, ...)

Dream ==
    /\ pc = "idle"
    /\ call \in {"none", "first"}
    /\ call' = IF call = "none" THEN "first" ELSE "second"
    /\ net' = [net EXCEPT !.diff = "zero"]
    /\ rng' = Seed(rng, 0)
    /\ total_px' = 0
    /\ progress_bar' = None
    /\ stack' = <<[base |-> InputArr, scale |-> cfg.scale, i |-> 0]>>
    /\ pc' = "octave"
    /\ exc' = "none"
    /\ resizes' = <<>>
    /\ bars' = <<>>
    /\ UNCHANGED <<cfg, results, ret, img, jit, y, x, g>>

\* Pixels one level schedules: base.shape[1] * base.shape[2] * n
LevelPxOnce(base, n) == base.shape[2] * base.shape[3]
LevelPx(base, n) == base.shape[2] * base.shape[3] * n

\* hf, wf of _octave_detail
Smaller(base, po) ==
    LET hw == Last2(base.shape) IN <<NextSize(hw[1], po), NextSize(hw[2], po)>>

\* _octave_detail, lines 109-115 with scale != 1: count the level's pixels,
\* downscale base and recurse; _resize raises TypeError for a non-3D base.
OctaveDescend ==
    /\ pc = "octave"
    /\ Top.scale # 1
    /\ total_px' = total_px + LevelPx(Top.base, cfg.n)
    /\ LET size == Smaller(Top.base, cfg.per_octave) IN
       /\ resizes' = Append(resizes, [arr |-> Top.base.shape, size |-> size,
                                      ok |-> ResizeOk(Top.base)])
       /\ IF ResizeOk(Top.base)
          THEN /\ stack' = Append(stack, [base |-> Resize(Top.base, size),
                                          scale |-> Top.scale - 1, i |-> 0])
               /\ pc' = "octave"
               /\ exc' = exc
          ELSE /\ stack' = <<>>
               /\ pc' = "finally"
               /\ exc' = "TypeError"
    /\ UNCHANGED <<cfg, call, results, ret, img, progress_bar, bars, net, rng,
                   jit, y, x, g>>

\* _octave_detail, lines 109-117 with scale == 1: count the level's pixels,
\* detail is zero, self.img = base + detail
OctaveBase ==
    /\ pc = "octave"
    /\ Top.scale = 1
    /\ total_px' = total_px + LevelPx(Top.base, cfg.n)
    /\ img' = Add(Top.base, ZerosLike(Top.base))
    /\ pc' = "step"
    /\ UNCHANGED <<cfg, call, results, exc, stack, ret, progress_bar, bars, net,
                   rng, jit, y, x, g, resizes>>

\* (as OctaveResume, but the level's own steps are not run)
OctaveResumeNoStep ==
    /\ pc = "resume"
    /\ resizes' = Append(resizes, [arr |-> ret.shape, size |-> Last2(Top.base.shape),
                                   ok |-> ResizeOk(ret)])
    /\ img' = Add(Top.base, Resize(ret, Last2(Top.base.shape)))
    /\ stack' = [stack EXCEPT ![Len(stack)].i = cfg.n]
    /\ pc' = "step"
    /\ UNCHANGED <<cfg, call, results, exc, ret, total_px, progress_bar, bars, net,
                   rng, jit, y, x, g>>

\* _octave_detail, lines 115-117 after the recursive call returned:
\* detail = _resize(smaller_detail, base.shape[-2:]); self.img = base + detail
OctaveResume ==
    /\ pc = "resume"
    /\ LET size == Last2(Top.base.shape) IN
       /\ resizes' = Append(resizes, [arr |-> ret.shape, size |-> size,
                                      ok |-> ResizeOk(ret)])
       /\ IF ResizeOk(ret)
          THEN /\ img' = Add(Top.base, Resize(ret, size))
               /\ stack' = stack
               /\ pc' = "step"
               /\ exc' = exc
          ELSE /\ img' = img
               /\ stack' = <<>>
               /\ pc' = "finally"
               /\ exc' = "TypeError"
    /\ UNCHANGED <<cfg, call, results, ret, total_px, progress_bar, bars, net,
                   rng, jit, y, x, g>>

\* _step, lines 101-104, and _grad_tiled, lines 72-80: draw the jitter, roll
\* the image, create a progress bar unless self.progress_bar is true, unpack
\* h, w (ValueError unless the image has three dimensions) and start the tile
\* loops, which have no iteration when ny or nx is 0.
StepBegin ==
    /\ pc = "step"
    /\ Top.i < cfg.n
    /\ jit' = Draw2(rng)
    /\ rng' = Advance2(rng)
    /\ img' = Roll(img, Draw2(rng), 1)
    /\ IF cfg.progress /\ ~Truthy(progress_bar, bars)
       THEN /\ bars' = Append(bars, NewBar(total_px))
            /\ progress_bar' = Len(bars) + 1
       ELSE UNCHANGED <<bars, progress_bar>>
    /\ IF Len(img.shape) = 3
       THEN /\ g' = <<>>
            /\ y' = 0
            /\ x' = 0
            /\ pc' = IF NumTiles(img.shape[2], cfg.max_tile_size)
                         * NumTiles(img.shape[3], cfg.max_tile_size) = 0
                     THEN "ascend" ELSE "tile"
            /\ UNCHANGED <<exc, stack>>
       ELSE /\ UNCHANGED <<g, y, x>>
            /\ stack' = <<>>
            /\ pc' = "finally"
            /\ exc' = "ValueError"
    /\ UNCHANGED <<cfg, call, results, ret, total_px, net, resizes>>

\* The tile of the current loop indices: th, tw, sy, sx of lines 81-89
CurTile ==
    LET h == img.shape[2]
        w == img.shape[3]
        ny == NumTiles(h, cfg.max_tile_size)
        nx == NumTiles(w, cfg.max_tile_size)
    IN [sy |-> TileStart(h, ny, y), sx |-> TileStart(w, nx, x),
        th |-> TileLen(h, ny, y), tw |-> TileLen(w, nx, x),
        ny |-> ny, nx |-> nx]

\* self.progress_bar.update(th*tw)
BarUpdateOne(b, t) == [b EXCEPT !.n = b.n + 1]
BarUpdate(b, t) == [b EXCEPT !.n = b.n + t.th * t.tw]

\* _grad_tiled, lines 81-97: one iteration of the inner loop
Tile ==
    /\ pc = "tile"
    /\ LET t == CurTile IN
       /\ net' = [shape |-> <<1, Channels, t.th, t.tw>>, diff |-> "grad"]
       /\ g' = Append(g, [sy |-> t.sy, sx |-> t.sx, th |-> t.th, tw |-> t.tw])
       /\ IF cfg.progress
          THEN bars' = [bars EXCEPT ![progress_bar] = BarUpdate(@, t)]
          ELSE bars' = bars
       /\ IF x + 1 < t.nx
          THEN x' = x + 1 /\ y' = y /\ pc' = pc
          ELSE IF y + 1 < t.ny
               THEN x' = 0 /\ y' = y + 1 /\ pc' = pc
               ELSE x' = 0 /\ y' = 0 /\ pc' = "ascend"
    /\ UNCHANGED <<cfg, call, results, exc, stack, ret, img, total_px,
                   progress_bar, rng, jit, resizes>>

\* _grad_tiled, lines 88-93: the network raises in forward (line 91) or in
\* backward (line 93) (an unknown end layer, an interrupt, ...), after the
\* input blob was reshaped; before backward, line 92 has written the end
\* layer's gradient buffer
TileFail ==
    /\ pc = "tile"
    /\ \E at \in {"forward", "backward"} :
         LET t == CurTile IN
         net' = [shape |-> <<1, Channels, t.th, t.tw>>,
                 diff |-> IF at = "backward" THEN "grad" ELSE net.diff]
    /\ stack' = <<>>
    /\ pc' = "finally"
    /\ exc' = "Exception"
    /\ UNCHANGED <<cfg, call, results, ret, img, total_px, progress_bar, bars,
                   rng, jit, y, x, g, resizes>>

\* _grad_tiled returns g; _step, lines 105-106: ascend and roll back
StepEnd ==
    /\ pc = "ascend"
    /\ img' = Roll(Ascend(img, jit, g), jit, -1)
    /\ stack' = [stack EXCEPT ![Len(stack)].i = @ + 1]
    /\ pc' = "step"
    /\ UNCHANGED <<cfg, call, results, exc, ret, total_px, progress_bar, bars,
                   net, rng, jit, y, x, g, resizes>>

\* _step has run its n iterations; _octave_detail, line 119: return
\* self.img - base to the caller (the enclosing level, or dream)
OctaveReturn ==
    /\ pc = "step"
    /\ Top.i = cfg.n
    /\ ret' = Sub(img, Top.base)
    /\ stack' = SubSeq(stack, 1, Len(stack) - 1)
    /\ pc' = IF Len(stack) = 1 THEN "finally" ELSE "resume"
    /\ UNCHANGED <<cfg, call, results, exc, img, total_px, progress_bar, bars,
                   net, rng, jit, y, x, g, resizes>>

\* tqdm.close()
Close(b) == [b EXCEPT !.closed = TRUE]

\* to_image(self._deprocess(detail + input_arr)), line 158
Output(detail) ==
    LET out == Add(detail, InputArr) IN
    IF ToImageOk(DeprocessShape(out.shape))
    THEN [kind |-> "image", exc |-> "none", out |-> out]
    ELSE [kind |-> "error", exc |-> "TypeError", out |-> NoArr]

\* dream, lines 155-158: the finally clause closes self.progress_bar if it is
\* true; then the pending exception propagates, or the image is returned.
\* The frames of the invocation are gone.
Finally ==
    /\ pc = "finally"
    /\ IF Truthy(progress_bar, bars)
       THEN bars' = [bars EXCEPT ![progress_bar] = Close(@)]
       ELSE bars' = bars
    /\ results' = Append(results,
                         IF exc # "none"
                         THEN [kind |-> "error", exc |-> exc, out |-> NoArr]
                         ELSE Output(ret))
    /\ pc' = "idle"
    /\ exc' = "none"
    /\ stack' = <<>>
    /\ ret' = NoArr
    /\ jit' = NoJit
    /\ y' = 0
    /\ x' = 0
    /\ g' = <<>>
    /\ UNCHANGED <<cfg, call, img, total_px, progress_bar, net, rng, resizes>>

Next ==
    \/ Dream
    \/ OctaveDescend
    \/ OctaveBase
    \/ OctaveResume
    \/ StepBegin
    \/ Tile
    \/ TileFail
    \/ StepEnd
    \/ OctaveReturn
    \/ Finally

Spec == Init /\ [][Next]_vars

SpecDoc == InitDoc /\ [][Next]_vars

----------------------------------------------------------------------------
\* Definitions used to state the properties

CeilDiv(a, b) == (a + b - 1) \div b

InTile(t, r, c) ==
    /\ t.sy <= r /\ r < t.sy + t.th
    /\ t.sx <= c /\ c < t.sx + t.tw

TilesAt(r, c) == {k \in DOMAIN g : InTile(g[k], r, c)}

InGradTiled == pc \in {"tile", "ascend"}

LastResult == results[Len(results)]

Returned == pc = "idle" /\ results # <<>>

Completed == Returned /\ LastResult.kind = "image"

Steps(det) == SelectSeq(det, LAMBDA e : e.op = "step")

\* Pixels reported to the progress bars of the invocation
RECURSIVE SumN(_)
SumN(bs) == IF bs = <<>> THEN 0 ELSE bs[1].n + SumN(Tail(bs))

Reported == SumN(bars)

\* Height and width of the level reached after k downscalings of hw
RECURSIVE Shrink(_, _, _)
Shrink(hw, k, po) ==
    IF k = 0 THEN hw
    ELSE Shrink(<<NextSize(hw[1], po), NextSize(hw[2], po)>>, k - 1, po)

\* Sum over the levels of a pyramid of `scale` levels of height * width * n
RECURSIVE PyramidPx(_, _, _, _)
PyramidPx(hw, scale, n, po) ==
    hw[1] * hw[2] * n
    + (IF scale = 1 THEN 0
       ELSE PyramidPx(Shrink(hw, 1, po), scale - 1, n, po))

InputHW == <<InputArr.shape[2], InputArr.shape[3]>>

ExpectedTotal == PyramidPx(InputHW, cfg.scale, cfg.n, cfg.per_octave)

\* Size of the level at which the j-th ascent step of a run is made when the
\* levels are visited from the coarsest to the finest, n steps each
ExpectedStepSize(j) ==
    Shrink(InputHW, cfg.scale - (((j - 1) \div cfg.n) + 1), cfg.per_octave)

StepSizesAsExpected(det, count) ==
    LET st == Steps(det) IN
    /\ Len(st) = count
    /\ \A j \in 1..count : st[j].size = ExpectedStepSize(j)

----------------------------------------------------------------------------
\* Properties

\* C1: while _grad_tiled runs on an image of h >= 1 rows and w >= 1
\* columns, the tiles visited so far lie inside the image and no pixel is in
\* two of them; when the loops end every pixel of the h x w image is in
\* exactly one tile and the number of tile rows (columns) is
\* ceil(h / max_tile_size) (ceil(w / max_tile_size)).
C1_TilePartition ==
    (InGradTiled /\ img.shape[2] >= 1 /\ img.shape[3] >= 1) =>
        LET h == img.shape[2]
            w == img.shape[3]
        IN /\ \A k \in DOMAIN g :
                /\ g[k].th >= 1 /\ g[k].tw >= 1
                /\ 0 <= g[k].sy /\ g[k].sy + g[k].th <= h
                /\ 0 <= g[k].sx /\ g[k].sx + g[k].tw <= w
           /\ \A r \in 0..(h - 1), c \in 0..(w - 1) :
                Cardinality(TilesAt(r, c)) <= 1
           /\ pc = "ascend" =>
                /\ \A r \in 0..(h - 1), c \in 0..(w - 1) :
                      Cardinality(TilesAt(r, c)) = 1
                /\ Cardinality({g[k].sy : k \in DOMAIN g})
                      = CeilDiv(h, cfg.max_tile_size)
                /\ Cardinality({g[k].sx : k \in DOMAIN g})
                      = CeilDiv(w, cfg.max_tile_size)

\* A gradient of a 5 x 3 image has been stitched from tiles of edge limit 2,
\* the last row of tiles absorbing a remainder.
C1_Witness ==
    /\ pc = "ascend"
    /\ img.shape = <<Channels, 5, 3>>
    /\ cfg.max_tile_size = 2
    /\ Len(g) = 6

\* C2: every tile the network input is reshaped to has height and width at
\* most max_tile_size.
C2_TileWithinMax ==
    InGradTiled =>
        \A k \in DOMAIN g : /\ g[k].th <= cfg.max_tile_size
                            /\ g[k].tw <= cfg.max_tile_size

\* C3: when a dream run with progress enabled has returned an image, the
\* pixel counts passed to progress_bar.update sum to total_px, which is the
\* sum over the visited levels of height * width * n.
C3_ProgressAccounting ==
    (Completed /\ cfg.progress) =>
        /\ Reported = total_px
        /\ total_px = ExpectedTotal

\* A run of two levels and two steps per level over a multi-tile image has
\* completed and reported its pixels.
C3_Witness ==
    /\ Completed /\ cfg.progress
    /\ cfg.scale = 2 /\ cfg.n = 2
    /\ cfg.image = <<5, 4, Channels>> /\ cfg.max_tile_size = 2
    /\ Reported > 0

\* C4: whenever dream has exited, normally or with an exception, every
\* progress bar created during the invocation is closed.
C4_BarsClosedOnExit ==
    pc = "idle" => \A k \in DOMAIN bars : bars[k].closed

\* C5: two dream calls on the same instance with the same arguments give the
\* same outcome (the same image, built by the same jitter draws and tiles),
\* unless the network failed in one of them; and every returned image is
\* built from the draws that follow a seeding with 0, whatever ran before.
C5_Deterministic ==
    /\ (/\ Len(results) = 2
        /\ results[1].exc # "Exception"
        /\ results[2].exc # "Exception") => results[1] = results[2]
    /\ \A r \in DOMAIN results :
          results[r].kind = "image" =>
              LET st == Steps(results[r].out.det) IN
              \A j \in DOMAIN st : st[j].jit = <<0, 2 * (j - 1)>>

\* The second call on an instance has returned an image made by ascent
\* steps, after a first call that also returned.
C5_Witness ==
    /\ Len(results) = 2
    /\ results[1].kind = "image"
    /\ results[2].kind = "image"
    /\ Len(results[2].out.det) >= 2

\* C6: a level with scale == 1 makes no _resize call and pushes no level;
\* before its first step self.img equals its base; it holds only its own
\* steps, at most n; and what it returns has the shape of its base and
\* consists of exactly n steps on that base.
C6_BaseCase ==
    /\ (stack # <<>> /\ Top.scale = 1 /\ pc \in {"step", "tile", "ascend"}) =>
          /\ Len(stack) = cfg.scale
          /\ Len(resizes) = cfg.scale - 1
          /\ (pc = "step" /\ Top.i = 0) => img = Top.base
          /\ img.shape = Top.base.shape
          /\ img.coef = 1 /\ img.chain = Top.base.chain
          /\ Top.i <= cfg.n
          /\ Len(img.det) = Top.i
          /\ \A k \in DOMAIN img.det :
                img.det[k].op = "step" /\ img.det[k].size = Last2(Top.base.shape)
    /\ (pc = "resume" /\ Top.scale = 2) =>
          /\ ret.shape = Resize(Top.base, Smaller(Top.base, cfg.per_octave)).shape
          /\ Len(ret.det) = cfg.n
          /\ \A k \in DOMAIN ret.det : ret.det[k].op = "step"
    /\ (pc = "finally" /\ exc = "none" /\ cfg.scale = 1) =>
          /\ ret.shape = InputArr.shape
          /\ Len(ret.det) = cfg.n
          /\ \A k \in DOMAIN ret.det : ret.det[k].op = "step"

\* A level with scale == 1 reached by recursion has returned its detail
\* after two steps.
C6_Witness ==
    /\ pc = "resume"
    /\ Top.scale = 2
    /\ cfg.n = 2
    /\ Len(ret.det) = 2

\* C7: with the defaults, the levels below a 1000 x 1000 image are 707 x 707
\* and 500 x 500.
C7_DocSizes ==
    /\ Len(resizes) >= 1 => resizes[1].size = <<707, 707>>
    /\ Len(resizes) >= 2 => resizes[2].size = <<500, 500>>

\* C8: a _resize call on an array that does not have three dimensions gives
\* no array: it is the last _resize call of the invocation, every level is
\* abandoned, and TypeError reaches dream's finally clause and then dream's
\* caller.  (Calls on arrays of three dimensions succeed.)
C8_ResizeRejects ==
    \A k \in DOMAIN resizes :
        /\ resizes[k].ok <=> Len(resizes[k].arr) = 3
        /\ ~resizes[k].ok =>
              /\ k = Len(resizes)
              /\ stack = <<>>
              /\ \/ pc = "finally" /\ exc = "TypeError"
                 \/ Returned /\ LastResult.kind = "error"
                             /\ LastResult.exc = "TypeError"

\* dream has exited with TypeError after _resize was given a 4-dimensional
\* array.
C8_Witness ==
    /\ Returned
    /\ LastResult.exc = "TypeError"
    /\ resizes # <<>>
    /\ Len(resizes[Len(resizes)].arr) = 4

\* C9: at every moment of a run the ascent steps made so far are the first
\* steps of the sequence "n steps at the coarsest level, then n at the next
\* finer, ..., then n at full size", the running level having made its first
\* i; a returned image is made of all scale * n steps of that sequence.
C9_BottomUp ==
    /\ (Len(cfg.image) = 3 /\ stack # <<>> /\ pc \in {"step", "tile", "ascend"}) =>
          /\ Len(stack) = cfg.scale - Top.scale + 1
          /\ StepSizesAsExpected(img.det, (Top.scale - 1) * cfg.n + Top.i)
    /\ \A r \in DOMAIN results :
          results[r].kind = "image" =>
              StepSizesAsExpected(results[r].out.det, cfg.scale * cfg.n)

\* A run of two levels of different sizes with two steps each has returned.
C9_Witness ==
    /\ Completed
    /\ cfg.scale = 2 /\ cfg.n = 2
    /\ cfg.image = <<5, 4, Channels>>
    /\ Len(Steps(LastResult.out.det)) = 4

\* C10: from the first step of the coarsest level on, total_px is the sum
\* over all levels of height * width * n; a progress bar, once created, has
\* that sum as its total, and total_px keeps that value to the end of the
\* invocation.
C10_TotalKnownBeforeFirstTile ==
    /\ pc \in {"step", "tile", "ascend"} => total_px = ExpectedTotal
    /\ \A k \in DOMAIN bars :
          /\ bars[k].total = ExpectedTotal
          /\ bars[k].total = total_px

\* The first tile of a two-level run is about to be processed and the
\* progress bar already accounts for both levels.
C10_Witness ==
    /\ pc = "tile"
    /\ cfg.scale = 2 /\ cfg.n >= 1
    /\ Len(stack) = 2
    /\ g = <<>>
    /\ bars # <<>>
    /\ bars[1].n = 0
    /\ bars[1].total > LevelPx(Top.base, cfg.n)

====
